---- MODULE Spec2Model ----
(***************************************************************************)
(* Model of libdill's channels (src/chan.c): channel, chsend, chrecv,      *)
(* chdone, choose and the handle close, run by cooperatively scheduled     *)
(* coroutines.  One action is one uninterrupted run of a coroutine from    *)
(* the entry of a call to its return or to its suspension in dill_wait().  *)
(*                                                                         *)
(* The scheduler primitives (dill_waitfor, dill_timer, dill_wait,          *)
(* dill_trigger) and the handle table (hmake, hquery, hclose) live outside *)
(* chan.c; they are modelled from the contracts the specification states   *)
(* for them.  dill_canblock() is taken to succeed (no shutdown).           *)
(***************************************************************************)
EXTENDS Integers, Sequences, FiniteSets, TLC

\* ------------------------------------------------------------------ bounds
NTasks == 3
NChans == 2
MaxBuf == 2
MaxMsgs == 3
MaxClauses == 2

Tasks == 1..NTasks
\* Handles that may refer to a channel.
Chans == 1..NChans
\* A handle that never refers to a channel.
NotAChan == 0
Handles == Chans \cup {NotAChan}

\* ------------------------------------------------------------ error codes
NoErr == "0"
EPIPE == "EPIPE"
ETIMEDOUT == "ETIMEDOUT"
EINVAL == "EINVAL"
EBADF == "EBADF"

\* Clause operations; BADOP stands for any other integer in chclause.op.
CHSEND == "CHSEND"
CHRECV == "CHRECV"
BADOP == "BADOP"

\* Element sizes channels are created with, and the len arguments callers pass.
ItemSizes == {1}
Lens == {1, 2}
\* A payload pointer is either NULL or points to caller memory.
NULL == "NULL"
PTR == "PTR"
\* Deadlines: 0 (immediate), -1 (infinite), 1 (some finite time in the future).
Deadlines == {0, -1, 1}

VARIABLES
    hs,      \* hs[h]: the handle table: "free", "chan" (refers to ch[h]) or "closed"
    ch,      \* ch[h]: struct dill_chan behind handle h
    cr,      \* cr[t]: the coroutine t: where it is and what dill_trigger left it
    gh,      \* gh[h]: history of channel h: accepted sends, successful sends, deliveries
    errno    \* the C errno (one thread, one errno)

vars == <<hs, ch, cr, gh, errno>>

\* ------------------------------------------------------------ struct values
\* The slot of a handle that refers to no channel.
NoChan ==
    [sz |-> 0, bufsz |-> 0, items |-> 0, first |-> 0,
     done |-> FALSE, buf |-> <<>>, in |-> <<>>, out |-> <<>>]

\* channel(): the struct as initialised by lines 89-95; the buffer holds
\* malloc's bytes, written 0 here (no slot is read before it is written).
NewChan(itemsz, bufsz) ==
    [sz |-> itemsz, bufsz |-> bufsz, items |-> 0, first |-> 0,
     done |-> FALSE, buf |-> [i \in 1..bufsz |-> 0], in |-> <<>>, out |-> <<>>]

\* A coroutine that is not inside a blocking call.
Running ==
    [pc |-> "run", op |-> "none", n |-> 0, timer |-> FALSE,
     id |-> 0, err |-> NoErr, rbuf |-> 0]

NoHist == [acc |-> 0, nsent |-> 0, log |-> <<>>]

\* Slot i (0-based, as in the C code) of the buffer of channel record c.
Slot(c, i) == c.buf[i + 1]
SetSlot(c, i, v) == [c.buf EXCEPT ![i + 1] = v]

Init ==
    /\ hs = [h \in Chans |-> "free"]
    /\ ch = [h \in Chans |-> NoChan]
    /\ cr = [t \in Tasks |-> Running]
    /\ gh = [h \in Chans |-> NoHist]
    /\ errno = NoErr

\* ------------------------------------------------------------ handle layer
\* hquery(h, dill_chan_type): the channel behind h, or NULL with errno EBADF.
HQuery(h) == h \in Chans /\ hs[h] = "chan"

\* hmake(): the handle handed out is the lowest one never used before.
HMake == CHOOSE h \in Chans : hs[h] = "free" /\ \A g \in 1..(h - 1) : hs[g] # "free"

\* channel(itemsz, bufsz), lines 79-105.
Channel(t, itemsz, bufsz) ==
    /\ cr[t].pc = "run"
    /\ \E h \in Chans : hs[h] = "free"
    /\ hs' = [hs EXCEPT ![HMake] = "chan"]
    /\ ch' = [ch EXCEPT ![HMake] = NewChan(itemsz, bufsz)]
    /\ gh' = [gh EXCEPT ![HMake] = NoHist]
    /\ UNCHANGED <<cr, errno>>

\* ---------------------------------------------------------------- scheduler
\* A clause linked into a waiter list: the coroutine that waits, the id
\* dill_wait() returns when this clause fires, and chcl.val (the payload of a
\* sender; a receiver's val points to its own buffer, cr[t].rbuf).
Clause(t, id, val) == [cr |-> t, id |-> id, val |-> val]

\* dill_waitfor(&chcl.cl, id, list, NULL): link the clause at the tail.
WaitFor(list, t, id, val) == Append(list, Clause(t, id, val))

\* The clauses of coroutine t removed from a list.
Unlink(list, t) == SelectSeq(list, LAMBDA c : c.cr # t)

\* dill_trigger(cl, err): every clause of the coroutine is unlinked from its
\* list, its timer is cancelled, and the coroutine becomes ready to resume
\* from dill_wait() with the clause's id and errno = err.  w is [ch, cr].
Trigger(w, cl, err) ==
    [ch |-> [h \in Chans |->
                [w.ch[h] EXCEPT !.in = Unlink(@, cl.cr), !.out = Unlink(@, cl.cr)]],
     cr |-> [w.cr EXCEPT ![cl.cr] =
                [@ EXCEPT !.pc = "ready", !.timer = FALSE, !.id = cl.id, !.err = err]]]

\* dill_timer(&tmcl, id, deadline): a timer is armed for a finite deadline.
Armed(deadline) == deadline > 0

\* memcpy(chcl->val, val, len) into the buffer of a parked receiver.
CopyTo(k, chcl, v) == [k EXCEPT ![chcl.cr].rbuf = v]

\* The coroutine suspended in dill_wait() inside call op with n clauses.
Waiting(op, n, deadline) ==
    [Running EXCEPT !.pc = "wait", !.op = op, !.n = n, !.timer = Armed(deadline)]

\* ------------------------------------------------------------------ history
Accepted(g, h, k) == [g EXCEPT ![h].acc = @ + k]
SentOk(g, h) == [g EXCEPT ![h].nsent = @ + 1]
Delivered(g, h, v) == [g EXCEPT ![h].log = Append(@, v)]

\* ------------------------------------------------------------ call outcomes
\* What one run of a call leaves: the channels, the coroutines, the history,
\* errno, and either park = TRUE (suspended in dill_wait) or the return value
\* rc and the content val of the caller's receive buffer.
Outcome(c, k, g, e, rc, val, park) ==
    [ch |-> c, cr |-> k, gh |-> g, errno |-> e, rc |-> rc, val |-> val, park |-> park]

\* A return that changes nothing but errno.
Fail(e, rc) == Outcome(ch, cr, gh, e, rc, 0, FALSE)

\* ------------------------------------------------------------------ chsend
\* A hand-off that wakes the receiver without copying the message.
HandOffNoCopy(h, v) ==
    LET chcl == Head(ch[h].in)
        w == Trigger([ch |-> ch, cr |-> cr], chcl, NoErr)
    IN Outcome(w.ch, w.cr, Delivered(SentOk(Accepted(gh, h, 1), h), h, v),
               errno, 0, 0, FALSE)

\* Lines 145-152: copy the message directly to the waiting receiver.
HandOff(h, v) ==
    LET chcl == Head(ch[h].in)
        w == Trigger([ch |-> ch, cr |-> CopyTo(cr, chcl, v)], chcl, NoErr)
    IN Outcome(w.ch, w.cr, Delivered(SentOk(Accepted(gh, h, 1), h), h, v),
               errno, 0, 0, FALSE)

\* Lines 153-159: write the item to the buffer.
Enqueue(h, v) ==
    LET pos == (ch[h].first + ch[h].items) % ch[h].bufsz
    IN Outcome([ch EXCEPT ![h].buf = SetSlot(ch[h], pos, v), ![h].items = @ + 1],
               cr, SentOk(Accepted(gh, h, 1), h), errno, 0, 0, FALSE)

\* Lines 160-168: the clause is not available immediately.
ParkSend(t, h, v, deadline) ==
    IF deadline = 0 THEN Fail(ETIMEDOUT, -1)
    ELSE Outcome([ch EXCEPT ![h].out = WaitFor(@, t, 0, v)],
                 [cr EXCEPT ![t] = Waiting("chsend", 1, deadline)],
                 Accepted(gh, h, 1), errno, 0, 0, TRUE)

\* The mutants of chsend: one that skips the hand-off to a waiting receiver,
\* one that skips the check of the done flag.
ChSendStepNoHandOff(t, h, v, len, deadline) ==
    IF ~HQuery(h) THEN Fail(EBADF, -1)
    ELSE IF len # ch[h].sz THEN Fail(errno, -1)
    ELSE IF ch[h].done THEN Fail(EPIPE, -1)
    ELSE IF ch[h].items < ch[h].bufsz THEN Enqueue(h, v)
    ELSE ParkSend(t, h, v, deadline)

ChSendStepNoDone(t, h, v, len, deadline) ==
    IF ~HQuery(h) THEN Fail(EBADF, -1)
    ELSE IF len # ch[h].sz THEN Fail(errno, -1)
    ELSE IF ch[h].in # <<>> THEN HandOff(h, v)
    ELSE IF ch[h].items < ch[h].bufsz THEN Enqueue(h, v)
    ELSE ParkSend(t, h, v, deadline)

\* chsend(h, val, len, deadline), lines 135-168, up to return or dill_wait().
\* v is the payload val points to.
ChSendStep(t, h, v, len, deadline) ==
    IF ~HQuery(h) THEN Fail(EBADF, -1)
    ELSE IF len # ch[h].sz THEN Fail(errno, -1)
    ELSE IF ch[h].done THEN Fail(EPIPE, -1)
    ELSE IF ch[h].in # <<>> THEN HandOff(h, v)
    ELSE IF ch[h].items < ch[h].bufsz THEN Enqueue(h, v)
    ELSE ParkSend(t, h, v, deadline)

\* ------------------------------------------------------------------ chrecv
\* A refill that forgets to count the item it writes.
RefillNoCount(w, h) ==
    LET c == w.ch[h] IN
    IF c.out # <<>> THEN
        LET chcl == Head(c.out)
            pos == (c.first + c.items) % c.bufsz
            c1 == [w.ch EXCEPT ![h].buf = SetSlot(c, pos, chcl.val)]
            x == Trigger([ch |-> c1, cr |-> w.cr], chcl, NoErr)
        IN [ch |-> x.ch, cr |-> x.cr, gh |-> SentOk(w.gh, h)]
    ELSE w

\* Lines 189-197 (and 297-306 in choose), an item having just been read: if
\* there is a waiting sender, its payload goes to the buffer and it is
\* unblocked.  w is [ch, cr, gh].
Refill(w, h) ==
    LET c == w.ch[h] IN
    IF c.out # <<>> THEN
        LET chcl == Head(c.out)
            pos == (c.first + c.items) % c.bufsz
            c1 == [w.ch EXCEPT ![h].buf = SetSlot(c, pos, chcl.val), ![h].items = @ + 1]
            x == Trigger([ch |-> c1, cr |-> w.cr], chcl, NoErr)
        IN [ch |-> x.ch, cr |-> x.cr, gh |-> SentOk(w.gh, h)]
    ELSE w

\* A buffer read that does not unblock a waiting sender.
DequeueNoRefill(h) ==
    LET v == Slot(ch[h], ch[h].first)
        c1 == [ch EXCEPT ![h].first = (@ + 1) % ch[h].bufsz, ![h].items = @ - 1]
    IN Outcome(c1, cr, Delivered(gh, h, v), errno, 0, v, FALSE)

\* Lines 184-199: read an item from the buffer.
Dequeue(h) ==
    LET v == Slot(ch[h], ch[h].first)
        c1 == [ch EXCEPT ![h].first = (@ + 1) % ch[h].bufsz, ![h].items = @ - 1]
        w == Refill([ch |-> c1, cr |-> cr, gh |-> Delivered(gh, h, v)], h)
    IN Outcome(w.ch, w.cr, w.gh, errno, 0, v, FALSE)

\* A rendezvous that copies the message but does not unblock the sender.
TakeOverNoWake(h) ==
    LET chcl == Head(ch[h].out)
    IN Outcome(ch, cr, Delivered(SentOk(gh, h), h, chcl.val),
               errno, 0, chcl.val, FALSE)

\* Lines 200-207: copy the message directly from the waiting sender.
TakeOver(h) ==
    LET chcl == Head(ch[h].out)
        w == Trigger([ch |-> ch, cr |-> cr], chcl, NoErr)
    IN Outcome(w.ch, w.cr, Delivered(SentOk(gh, h), h, chcl.val),
               errno, 0, chcl.val, FALSE)

\* A parking phase of chrecv that does not look at the deadline.
ParkRecvIgnoresZero(t, h, deadline) ==
    Outcome([ch EXCEPT ![h].in = WaitFor(@, t, 0, 0)],
            [cr EXCEPT ![t] = Waiting("chrecv", 1, deadline)],
            gh, errno, 0, 0, TRUE)

\* Lines 210-218: the clause is not available immediately.
ParkRecv(t, h, deadline) ==
    IF deadline = 0 THEN Fail(ETIMEDOUT, -1)
    ELSE Outcome([ch EXCEPT ![h].in = WaitFor(@, t, 0, 0)],
                 [cr EXCEPT ![t] = Waiting("chrecv", 1, deadline)],
                 gh, errno, 0, 0, TRUE)

\* The mutants of chrecv: one that never takes over from a waiting sender,
\* one that skips the check of the done flag, one that serves a waiting
\* sender before the buffer.
ChRecvStepNoTakeOver(t, h, len, deadline) ==
    IF ~HQuery(h) THEN Fail(EBADF, -1)
    ELSE IF len # ch[h].sz THEN Fail(errno, -1)
    ELSE IF ch[h].items # 0 THEN Dequeue(h)
    ELSE IF ch[h].done /\ ch[h].items = 0 THEN Fail(EPIPE, -1)
    ELSE ParkRecv(t, h, deadline)

ChRecvStepNoDone(t, h, len, deadline) ==
    IF ~HQuery(h) THEN Fail(EBADF, -1)
    ELSE IF len # ch[h].sz THEN Fail(errno, -1)
    ELSE IF ch[h].items # 0 THEN Dequeue(h)
    ELSE IF ch[h].out # <<>> THEN TakeOver(h)
    ELSE ParkRecv(t, h, deadline)

ChRecvStepSenderFirst(t, h, len, deadline) ==
    IF ~HQuery(h) THEN Fail(EBADF, -1)
    ELSE IF len # ch[h].sz THEN Fail(errno, -1)
    ELSE IF ch[h].out # <<>> THEN TakeOver(h)
    ELSE IF ch[h].items # 0 THEN Dequeue(h)
    ELSE IF ch[h].done /\ ch[h].items = 0 THEN Fail(EPIPE, -1)
    ELSE ParkRecv(t, h, deadline)

\* chrecv(h, val, len, deadline), lines 175-218, up to return or dill_wait().
ChRecvStep(t, h, len, deadline) ==
    IF ~HQuery(h) THEN Fail(EBADF, -1)
    ELSE IF len # ch[h].sz THEN Fail(errno, -1)
    ELSE IF ch[h].items # 0 THEN Dequeue(h)
    ELSE IF ch[h].out # <<>> THEN TakeOver(h)
    ELSE IF ch[h].done /\ ch[h].items = 0 THEN Fail(EPIPE, -1)
    ELSE ParkRecv(t, h, deadline)

\* ------------------------------------------------------------------ chdone
\* The loops of lines 232-236 / 118-122 and 237-241 / 123-127: trigger the head
\* of the list with EPIPE until the list is empty.  w is [ch, cr].
RECURSIVE DrainIn(_, _)
DrainIn(w, h) ==
    IF w.ch[h].in = <<>> THEN w
    ELSE DrainIn(Trigger(w, Head(w.ch[h].in), EPIPE), h)

\* A second loop that wakes nobody.
DrainOutNone(w, h) == w

RECURSIVE DrainOut(_, _)
DrainOut(w, h) ==
    IF w.ch[h].out = <<>> THEN w
    ELSE DrainOut(Trigger(w, Head(w.ch[h].out), EPIPE), h)

\* The clauses the two loops of chdone pass to dill_trigger, in order.
RECURSIVE FiredIn(_, _)
FiredIn(w, h) ==
    IF w.ch[h].in = <<>> THEN <<>>
    ELSE <<Head(w.ch[h].in)>> \o FiredIn(Trigger(w, Head(w.ch[h].in), EPIPE), h)

RECURSIVE FiredOut(_, _)
FiredOut(w, h) ==
    IF w.ch[h].out = <<>> THEN <<>>
    ELSE <<Head(w.ch[h].out)>> \o FiredOut(Trigger(w, Head(w.ch[h].out), EPIPE), h)

ChDoneFired(h) ==
    LET w == [ch |-> [ch EXCEPT ![h].done = TRUE], cr |-> cr]
    IN FiredIn(w, h) \o FiredOut(DrainIn(w, h), h)

\* A chdone that does not look at the done flag.
ChDoneStepAgain(h) ==
    IF ~HQuery(h) THEN Fail(EBADF, -1)
    ELSE LET w == DrainOut(DrainIn([ch |-> [ch EXCEPT ![h].done = TRUE],
                                    cr |-> cr], h), h)
         IN Outcome(w.ch, w.cr, gh, errno, 0, 0, FALSE)

\* chdone(h), lines 225-243.
ChDoneStep(h) ==
    IF ~HQuery(h) THEN Fail(EBADF, -1)
    ELSE IF ch[h].done THEN Fail(EPIPE, -1)
    ELSE LET w == DrainOut(DrainIn([ch |-> [ch EXCEPT ![h].done = TRUE],
                                    cr |-> cr], h), h)
         IN Outcome(w.ch, w.cr, gh, errno, 0, 0, FALSE)

\* hclose(h) on a channel: dill_chan_close(), lines 113-129, then the handle
\* is free again.
CloseStep(h) ==
    IF ~HQuery(h) THEN Fail(EBADF, -1)
    ELSE LET w == DrainOut(DrainIn([ch |-> ch, cr |-> cr], h), h)
         IN Outcome([w.ch EXCEPT ![h] = NoChan], w.cr,
                    [gh EXCEPT ![h] = NoHist], errno, 0, 0, FALSE)

\* ------------------------------------------------------------------ choose
\* The number of CHSEND clauses on channel h among the first i clauses.
SendsUpTo(cls, i, h) ==
    Cardinality({k \in 1..i : cls[k].op = CHSEND /\ cls[k].ch = h})

\* The payload clause number i (1-based) of a choose call points to.
Payload(cls, i) == gh[cls[i].ch].acc + SendsUpTo(cls, i, cls[i].ch)

\* The clauses lines 320-326 link into list `op` of channel h, in clause
\* order: clause i (0-based id) goes to ch->in when its op is CHRECV and to
\* ch->out otherwise.
Linked(t, cls, h, recv) ==
    LET idx == SelectSeq([i \in 1..Len(cls) |-> i],
                         LAMBDA i : cls[i].ch = h /\ ((cls[i].op = CHRECV) = recv))
    IN [j \in 1..Len(idx) |->
            Clause(t, idx[j] - 1, IF recv THEN 0 ELSE Payload(cls, idx[j]))]

\* A parking phase that links the clauses before it looks at the deadline.
ChooseParkLinksFirst(t, cls, deadline) ==
    LET linked == [h \in Chans |->
                    [ch[h] EXCEPT !.in = @ \o Linked(t, cls, h, TRUE),
                                  !.out = @ \o Linked(t, cls, h, FALSE)]]
    IN  IF deadline = 0 THEN Outcome(linked, cr, gh, ETIMEDOUT, -1, 0, FALSE)
        ELSE Outcome(linked,
                     [cr EXCEPT ![t] = Waiting("choose", Len(cls), deadline)],
                     [h \in Chans |-> [gh[h] EXCEPT !.acc = @ + SendsUpTo(cls, Len(cls), h)]],
                     errno, 0, 0, TRUE)

\* Lines 316-329: no clause is available immediately.
ChoosePark(t, cls, deadline) ==
    IF deadline = 0 THEN Fail(ETIMEDOUT, -1)
    ELSE Outcome([h \in Chans |->
                    [ch[h] EXCEPT !.in = @ \o Linked(t, cls, h, TRUE),
                                  !.out = @ \o Linked(t, cls, h, FALSE)]],
                 [cr EXCEPT ![t] = Waiting("choose", Len(cls), deadline)],
                 [h \in Chans |-> [gh[h] EXCEPT !.acc = @ + SendsUpTo(cls, Len(cls), h)]],
                 errno, 0, 0, TRUE)

\* A CHSEND case that does not look at the done flag.
ChooseSendNoDone(h, i, v) ==
    IF ch[h].in # <<>> THEN
        LET chcl == Head(ch[h].in)
            w == Trigger([ch |-> ch, cr |-> CopyTo(cr, chcl, v)], chcl, NoErr)
        IN Outcome(w.ch, w.cr, Delivered(SentOk(Accepted(gh, h, 1), h), h, v),
                   NoErr, i, 0, FALSE)
    ELSE IF ch[h].items < ch[h].bufsz THEN
        LET pos == (ch[h].first + ch[h].items) % ch[h].bufsz
        IN Outcome([ch EXCEPT ![h].buf = SetSlot(ch[h], pos, v), ![h].items = @ + 1],
                   cr, SentOk(Accepted(gh, h, 1), h), NoErr, i, 0, FALSE)
    ELSE Fail(EPIPE, i)

\* A CHSEND case that looks at the done flag after it has written the item.
ChooseSendDoneLate(h, i, v) ==
    IF ch[h].in # <<>> THEN
        LET chcl == Head(ch[h].in)
            w == Trigger([ch |-> ch, cr |-> CopyTo(cr, chcl, v)], chcl, NoErr)
        IN Outcome(w.ch, w.cr, Delivered(SentOk(Accepted(gh, h, 1), h), h, v),
                   NoErr, i, 0, FALSE)
    ELSE IF ch[h].items < ch[h].bufsz THEN
        LET pos == (ch[h].first + ch[h].items) % ch[h].bufsz
        IN Outcome([ch EXCEPT ![h].buf = SetSlot(ch[h], pos, v), ![h].items = @ + 1],
                   cr, SentOk(Accepted(gh, h, 1), h),
                   IF ch[h].done THEN EPIPE ELSE NoErr, i, 0, FALSE)
    ELSE Fail(EPIPE, i)

\* A CHSEND case that copies the message to the receiver but leaves it parked.
ChooseSendNoWake(h, i, v) ==
    IF ch[h].done THEN Fail(EPIPE, i)
    ELSE IF ch[h].in # <<>> THEN
        Outcome(ch, CopyTo(cr, Head(ch[h].in), v),
                Delivered(SentOk(Accepted(gh, h, 1), h), h, v), NoErr, i, 0, FALSE)
    ELSE
        LET pos == (ch[h].first + ch[h].items) % ch[h].bufsz
        IN Outcome([ch EXCEPT ![h].buf = SetSlot(ch[h], pos, v), ![h].items = @ + 1],
                   cr, SentOk(Accepted(gh, h, 1), h), NoErr, i, 0, FALSE)

\* The CHSEND case of the polling loop, lines 258-278, for clause i (0-based)
\* on channel h with payload v, once the clause was found available.
ChooseSend(h, i, v) ==
    IF ch[h].done THEN Fail(EPIPE, i)
    ELSE IF ch[h].in # <<>> THEN
        LET chcl == Head(ch[h].in)
            w == Trigger([ch |-> ch, cr |-> CopyTo(cr, chcl, v)], chcl, NoErr)
        IN Outcome(w.ch, w.cr, Delivered(SentOk(Accepted(gh, h, 1), h), h, v),
                   NoErr, i, 0, FALSE)
    ELSE
        LET pos == (ch[h].first + ch[h].items) % ch[h].bufsz
        IN Outcome([ch EXCEPT ![h].buf = SetSlot(ch[h], pos, v), ![h].items = @ + 1],
                   cr, SentOk(Accepted(gh, h, 1), h), NoErr, i, 0, FALSE)

\* A CHRECV case that does not refill the buffer from a waiting sender.
ChooseRecvNoRefill(h, i) ==
    IF ch[h].done /\ ch[h].items = 0 THEN Fail(EPIPE, i)
    ELSE IF ch[h].items = 0 THEN
        LET chcl == Head(ch[h].out)
            w == Trigger([ch |-> ch, cr |-> cr], chcl, NoErr)
        IN Outcome(w.ch, w.cr, Delivered(SentOk(gh, h), h, chcl.val),
                   NoErr, i, chcl.val, FALSE)
    ELSE
        LET v == Slot(ch[h], ch[h].first)
            c1 == [ch EXCEPT ![h].first = (@ + 1) % ch[h].bufsz, ![h].items = @ - 1]
        IN Outcome(c1, cr, Delivered(gh, h, v), NoErr, i, v, FALSE)

\* The CHRECV case of the polling loop, lines 279-310, for clause i (0-based)
\* on channel h, once the clause was found available.
ChooseRecv(h, i) ==
    IF ch[h].done /\ ch[h].items = 0 THEN Fail(EPIPE, i)
    ELSE IF ch[h].items = 0 THEN
        LET chcl == Head(ch[h].out)
            w == Trigger([ch |-> ch, cr |-> cr], chcl, NoErr)
        IN Outcome(w.ch, w.cr, Delivered(SentOk(gh, h), h, chcl.val),
                   NoErr, i, chcl.val, FALSE)
    ELSE
        LET v == Slot(ch[h], ch[h].first)
            c1 == [ch EXCEPT ![h].first = (@ + 1) % ch[h].bufsz, ![h].items = @ - 1]
            w == Refill([ch |-> c1, cr |-> cr, gh |-> Delivered(gh, h, v)], h)
        IN Outcome(w.ch, w.cr, w.gh, NoErr, i, v, FALSE)

\* A polling loop that does not reject a null payload.
RECURSIVE ChooseFromNoNull(_, _, _, _)
ChooseFromNoNull(t, cls, i, deadline) ==
    IF i = Len(cls) THEN ChoosePark(t, cls, deadline)
    ELSE
        LET cl == cls[i + 1]
            h == cl.ch
        IN  IF ~HQuery(h) THEN Fail(EBADF, i)
            ELSE IF cl.len # ch[h].sz THEN Fail(EINVAL, i)
            ELSE IF cl.op = CHSEND THEN
                IF ch[h].items < ch[h].bufsz \/ ch[h].in # <<>> \/ ch[h].done
                THEN ChooseSend(h, i, Payload(cls, i + 1))
                ELSE ChooseFromNoNull(t, cls, i + 1, deadline)
            ELSE IF cl.op = CHRECV THEN
                IF ch[h].items # 0 \/ ch[h].out # <<>> \/ ch[h].done
                THEN ChooseRecv(h, i)
                ELSE ChooseFromNoNull(t, cls, i + 1, deadline)
            ELSE Fail(EINVAL, i)

\* The polling loop of choose, lines 251-315, from clause i (0-based) on.
RECURSIVE ChooseFrom(_, _, _, _)
ChooseFrom(t, cls, i, deadline) ==
    IF i = Len(cls) THEN ChoosePark(t, cls, deadline)
    ELSE
        LET cl == cls[i + 1]
            h == cl.ch
        IN  IF ~HQuery(h) THEN Fail(EBADF, i)
            ELSE IF cl.len # ch[h].sz \/ (cl.len > 0 /\ cl.val = NULL)
                 THEN Fail(EINVAL, i)
            ELSE IF cl.op = CHSEND THEN
                IF ch[h].items < ch[h].bufsz \/ ch[h].in # <<>> \/ ch[h].done
                THEN ChooseSend(h, i, Payload(cls, i + 1))
                ELSE ChooseFrom(t, cls, i + 1, deadline)
            ELSE IF cl.op = CHRECV THEN
                IF ch[h].items # 0 \/ ch[h].out # <<>> \/ ch[h].done
                THEN ChooseRecv(h, i)
                ELSE ChooseFrom(t, cls, i + 1, deadline)
            ELSE Fail(EINVAL, i)

\* choose(clauses, nclauses, deadline), lines 245-329, up to return or
\* dill_wait(); clauses is a valid array of nclauses >= 0 entries.
ChooseStep(t, cls, deadline) == ChooseFrom(t, cls, 0, deadline)

\* --------------------------------------------------------------- the calls
\* The state a call with outcome r leaves.
Apply(r) ==
    /\ ch' = r.ch
    /\ cr' = r.cr
    /\ gh' = r.gh
    /\ errno' = r.errno

\* The number of sends the channels have accepted so far.
RECURSIVE AcceptedUpTo(_)
AcceptedUpTo(h) == IF h = 0 THEN 0 ELSE gh[h].acc + AcceptedUpTo(h - 1)

\* Callers number their messages: the k-th message a channel accepts carries
\* the value k.  CanSend(m, k): k more sends stay within m accepted in all.
NextVal(h) == IF h \in Chans THEN gh[h].acc + 1 ELSE 1
CanSend(m, k) == AcceptedUpTo(NChans) + k <= m
\* The number of CHSEND clauses of a clause array.
Sends(cls) == Cardinality({k \in 1..Len(cls) : cls[k].op = CHSEND})

Caller(t) == cr[t].pc = "run"

ChSend(t, h, len, deadline) ==
    /\ Caller(t)
    /\ Apply(ChSendStep(t, h, NextVal(h), len, deadline))
    /\ UNCHANGED hs

ChRecv(t, h, len, deadline) ==
    /\ Caller(t)
    /\ Apply(ChRecvStep(t, h, len, deadline))
    /\ UNCHANGED hs

ChDone(t, h) ==
    /\ Caller(t)
    /\ Apply(ChDoneStep(h))
    /\ UNCHANGED hs

\* hclose(h): the handle of a channel is closed for good.
Close(t, h) ==
    /\ Caller(t)
    /\ hs' = IF HQuery(h) THEN [hs EXCEPT ![h] = "closed"] ELSE hs
    /\ Apply(CloseStep(h))

\* The clauses callers pass to choose on the channels 1..nch: the well-formed
\* ones, and one clause for each way of being malformed.
GoodClauses(nch) == [ch : 1..nch, op : {CHSEND, CHRECV}, len : ItemSizes, val : {PTR}]
BadClauses ==
    {[ch |-> NotAChan, op |-> CHSEND, len |-> 1, val |-> PTR],
     [ch |-> 1, op |-> CHRECV, len |-> 2, val |-> PTR],
     [ch |-> 1, op |-> CHSEND, len |-> 1, val |-> NULL],
     [ch |-> 1, op |-> BADOP, len |-> 1, val |-> PTR]}
ListsOf(S) == UNION {[1..n -> S] : n \in 0..MaxClauses}
\* The clause arrays: all arrays of well-formed clauses, and the arrays that
\* end with a malformed clause.
GoodLists(nch) == ListsOf(GoodClauses(nch))
ClauseLists(nch) ==
    GoodLists(nch) \cup {l \in ListsOf(GoodClauses(nch) \cup BadClauses) :
                            Len(l) > 0 /\ l[Len(l)] \in BadClauses}

Choose(t, cls, deadline) ==
    /\ Caller(t)
    /\ Apply(ChooseStep(t, cls, deadline))
    /\ UNCHANGED hs

\* A chsend or chrecv that does not look at errno after dill_wait().
AfterWaitIgnoreErr(c) ==
    IF c.op = "choose"
    THEN IF c.id = c.n
         THEN [rc |-> -1, errno |-> ETIMEDOUT, val |-> c.rbuf]
         ELSE [rc |-> c.id, errno |-> c.err, val |-> c.rbuf]
    ELSE IF c.id = 1 THEN [rc |-> -1, errno |-> ETIMEDOUT, val |-> c.rbuf]
    ELSE [rc |-> 0, errno |-> c.err, val |-> c.rbuf]

\* dill_wait() returns in a triggered coroutine with record c: the id of the
\* fired clause, and errno set to the trigger's err; then lines 169-172
\* (chsend), 219-222 (chrecv) or 330-332 (choose) compute the return value.
\* val is the content of the caller's receive buffer at return.
AfterWait(c) ==
    IF c.op = "choose"
    THEN IF c.id = c.n
         THEN [rc |-> -1, errno |-> ETIMEDOUT, val |-> c.rbuf]
         ELSE [rc |-> c.id, errno |-> c.err, val |-> c.rbuf]
    ELSE IF c.id = 1 THEN [rc |-> -1, errno |-> ETIMEDOUT, val |-> c.rbuf]
    ELSE IF c.err # NoErr THEN [rc |-> -1, errno |-> c.err, val |-> c.rbuf]
    ELSE [rc |-> 0, errno |-> c.err, val |-> c.rbuf]

ResumeStep(t) == AfterWait(cr[t])

Resume(t) ==
    /\ cr[t].pc = "ready"
    /\ errno' = ResumeStep(t).errno
    /\ cr' = [cr EXCEPT ![t] = Running]
    /\ UNCHANGED <<hs, ch, gh>>

\* The timer of a suspended coroutine expires: its timer clause (id n) is
\* triggered with ETIMEDOUT.
Timeout(t) ==
    /\ cr[t].pc = "wait"
    /\ cr[t].timer
    /\ LET w == Trigger([ch |-> ch, cr |-> cr], Clause(t, cr[t].n, 0), ETIMEDOUT)
       IN ch' = w.ch /\ cr' = w.cr
    /\ UNCHANGED <<hs, gh, errno>>

\* ------------------------------------------------------- the specifications
\* The steps of the coroutines T on the handles H (nch of them channels at
\* most), with capacities B, len arguments L, clause arrays CL, deadlines D,
\* and at most m sends accepted in all.
NextOf(T, H, nch, B, L, CL, D, m) ==
    \/ \E t \in T, sz \in ItemSizes, b \in B : hs[nch] = "free" /\ Channel(t, sz, b)
    \/ \E t \in T, h \in H, len \in L, d \in D : CanSend(m, 1) /\ ChSend(t, h, len, d)
    \/ \E t \in T, h \in H, len \in L, d \in D : ChRecv(t, h, len, d)
    \/ \E t \in T, h \in H : ChDone(t, h)
    \/ \E t \in T, h \in H : Close(t, h)
    \/ \E t \in T, l \in CL, d \in D : CanSend(m, Sends(l)) /\ Choose(t, l, d)
    \/ \E t \in T : Resume(t)
    \/ \E t \in T : Timeout(t)

\* A deadline is 0 or finite: until its timer fires, a call with a finite
\* deadline behaves as one with none.
Timed == {0, 1}

\* All coroutines but one on one channel of any capacity, with every kind
\* of malformed argument.
Next ==
    NextOf(1..(NTasks - 1), {NotAChan, 1}, 1, 0..MaxBuf, Lens, ClauseLists(1),
           Timed, MaxMsgs)
Spec == Init /\ [][Next]_vars

\* All coroutines on one channel of any capacity, with well-formed arguments
\* and one message less.
NextWide ==
    NextOf(Tasks, {1}, 1, 0..MaxBuf, ItemSizes, GoodLists(1), Timed, MaxMsgs - 1)
SpecWide == Init /\ [][NextWide]_vars

\* All coroutines but one on every channel, the capacities below MaxBuf, with
\* well-formed arguments and one message less.
NextTwo ==
    NextOf(1..(NTasks - 1), Chans, NChans, 0..(MaxBuf - 1), ItemSizes,
           GoodLists(NChans), Timed, MaxMsgs - 1)
SpecTwo == Init /\ [][NextTwo]_vars

\* Two tasks on two channels that communicate through choose alone (a choose
\* of one clause stands for chsend and chrecv).
NextPoll ==
    \/ \E t \in 1..(NTasks - 1), sz \in ItemSizes, b \in 0..(MaxBuf - 1) :
            hs[NChans] = "free" /\ Channel(t, sz, b)
    \/ \E t \in 1..(NTasks - 1), h \in Chans : ChDone(t, h)
    \/ \E t \in 1..(NTasks - 1), h \in Chans : Close(t, h)
    \/ \E t \in 1..(NTasks - 1), l \in GoodLists(NChans), d \in Timed :
            CanSend(MaxMsgs - 1, Sends(l)) /\ Choose(t, l, d)
    \/ \E t \in 1..(NTasks - 1) : Resume(t)
    \/ \E t \in 1..(NTasks - 1) : Timeout(t)
SpecPoll == Init /\ [][NextPoll]_vars

\* Two tasks on one channel, with immediate, finite and infinite deadlines,
\* under the scheduling the coroutine library provides: a timer that is
\* armed fires unless its coroutine is woken before, and a coroutine that is
\* ready is resumed.
NextFair ==
    NextOf(1..(NTasks - 1), {1}, 1, 0..(MaxBuf - 1), ItemSizes, GoodLists(1),
           Deadlines, MaxMsgs - 1)
Fairness == \A t \in Tasks : WF_vars(Timeout(t)) /\ WF_vars(Resume(t))
SpecFair == Init /\ [][NextFair]_vars /\ Fairness

\* ------------------------------------------------------------------ claims
Live == {h \in Chans : hs[h] = "chan"}
Range(q) == {q[i] : i \in 1..Len(q)}
\* The coroutines with a clause on a waiter list.
Owners(q) == {c.cr : c \in Range(q)}

\* C1 (as stated): no channel has its send-waiter list and its recv-waiter
\* list both non-empty.
WaiterExclusion ==
    \A h \in Chans : ~(ch[h].in # <<>> /\ ch[h].out # <<>>)

\* C1 (amended): the two waiter lists of a channel are both non-empty only
\* when the channel is unbuffered and every clause on them belongs to one and
\* the same coroutine (a choose parked on the channel in both directions);
\* clauses of two different coroutines are never on both lists.
WaiterExclusionAcrossTasks ==
    \A h \in Chans :
        (ch[h].in # <<>> /\ ch[h].out # <<>>) =>
            /\ ch[h].bufsz = 0
            /\ \E t \in Tasks : Owners(ch[h].in) = {t} /\ Owners(ch[h].out) = {t}

\* A choose is parked on both lists of a channel while another coroutine has
\* been resumed by a hand-off on that channel before.
WitnessBothLists ==
    \E h \in Live : ch[h].in # <<>> /\ ch[h].out # <<>> /\ gh[h].log # <<>>

\* C2: in every channel 0 <= items <= bufsz; a non-empty send-waiter list
\* implies items = bufsz; a non-empty recv-waiter list implies items = 0.
Pressure ==
    \A h \in Chans :
        /\ 0 <= ch[h].items /\ ch[h].items <= ch[h].bufsz
        /\ ch[h].out # <<>> => ch[h].items = ch[h].bufsz
        /\ ch[h].in # <<>> => ch[h].items = 0

\* A sender is parked on a full buffer that a receive has refilled from a
\* parked sender before.
WitnessPressure ==
    \E h \in Live : ch[h].bufsz > 0 /\ ch[h].out # <<>> /\ gh[h].log # <<>>

\* C3: once chdone has succeeded on a channel, done stays set for as long as
\* the channel exists, and both waiter lists are empty whenever done is set.
DoneDrains ==
    /\ [](\A h \in Chans : ch[h].done => ch[h].in = <<>> /\ ch[h].out = <<>>)
    /\ [][\A h \in Chans : ch[h].done => ch'[h].done \/ hs'[h] = "closed"]_vars

\* chdone has woken a parked coroutine with EPIPE on a channel that is done.
WitnessDoneDrains ==
    \E h \in Live, t \in Tasks :
        ch[h].done /\ cr[t].pc = "ready" /\ cr[t].err = EPIPE

\* C4: on every channel the messages are delivered in the order in which
\* their sends were accepted (the k-th accepted message carries the value k,
\* so the deliveries are strictly increasing).
Fifo ==
    \A h \in Chans : \A i, j \in 1..Len(gh[h].log) :
        i < j => gh[h].log[i] < gh[h].log[j]

\* The first and the third accepted message were delivered, in this order;
\* the second one, a parked sender, was withdrawn.
WitnessFifo == \E h \in Live : gh[h].log = <<1, 3>>

\* C5: on every channel the sends that succeeded are the receives that
\* succeeded plus the buffered items, no message is delivered twice, and
\* every delivered message was accepted before; when the handle is closed
\* every parked clause is woken with EPIPE (its message is dropped).
Conservation ==
    /\ [](\A h \in Chans :
            /\ gh[h].nsent = Len(gh[h].log) + ch[h].items
            /\ Cardinality(Range(gh[h].log)) = Len(gh[h].log)
            /\ Range(gh[h].log) \subseteq 1..gh[h].acc)
    /\ [][\A h \in Chans : hs[h] = "chan" /\ hs'[h] = "closed" =>
            \A t \in Owners(ch[h].in) \cup Owners(ch[h].out) :
                cr'[t].pc = "ready" /\ cr'[t].err = EPIPE]_vars

\* A channel holds an item after a delivery, and one send it accepted never
\* succeeded (a parked sender that was withdrawn).
WitnessConservation ==
    \E h \in Live :
        ch[h].items > 0 /\ gh[h].log # <<>> /\ gh[h].nsent < gh[h].acc

\* An idle channel: open, empty, nobody parked.
Idle(h) ==
    /\ hs[h] = "chan" /\ ~ch[h].done
    /\ ch[h].items = 0 /\ ch[h].in = <<>> /\ ch[h].out = <<>>

\* Channel record c holds message m and nothing else: in its buffer, or as
\* the payload of coroutine a parked in chsend.
HoldsBuffered(c, m) ==
    c.items = 1 /\ Slot(c, c.first) = m /\ c.in = <<>> /\ c.out = <<>>
HoldsParked(c, a, m) ==
    c.items = 0 /\ c.in = <<>> /\ c.out = <<Clause(a, 0, m)>>

\* C6: a chsend of any value v on an idle channel stores v in the buffer and
\* returns 0 (buffered channel) or parks with v as payload (unbuffered
\* channel); a chrecv on a channel that holds only v returns 0 with v, leaves
\* the channel empty with nobody parked, and resumes the parked sender, which
\* then returns 0.
RoundTrip ==
    \A h \in Chans, a \in Tasks : \A b \in Tasks \ {a} :
        /\ Idle(h) /\ Caller(a) =>
            \A v \in 1..MaxMsgs, d \in Deadlines :
                LET r == ChSendStep(a, h, v, ch[h].sz, d)
                IN  IF ch[h].bufsz > 0
                    THEN ~r.park /\ r.rc = 0 /\ HoldsBuffered(r.ch[h], v)
                    ELSE d # 0 => r.park /\ HoldsParked(r.ch[h], a, v)
                                   /\ r.cr[a].pc = "wait"
        /\ Caller(b) =>
            \A v \in 1..MaxMsgs, d \in Deadlines :
                /\ HoldsBuffered(ch[h], v) =>
                    LET r == ChRecvStep(b, h, ch[h].sz, d)
                    IN  /\ ~r.park /\ r.rc = 0 /\ r.val = v
                        /\ r.ch[h].items = 0
                        /\ r.ch[h].in = <<>> /\ r.ch[h].out = <<>>
                /\ HoldsParked(ch[h], a, v) /\ cr[a].op = "chsend" =>
                    LET r == ChRecvStep(b, h, ch[h].sz, d)
                    IN  /\ ~r.park /\ r.rc = 0 /\ r.val = v
                        /\ r.ch[h].items = 0
                        /\ r.ch[h].in = <<>> /\ r.ch[h].out = <<>>
                        /\ r.cr[a].pc = "ready"
                        /\ AfterWait(r.cr[a]).rc = 0

\* After a round trip on an unbuffered channel: the message was delivered,
\* the sender is about to return 0, the channel is empty, nobody is parked.
WitnessRoundTrip ==
    \E h \in Live, a \in Tasks :
        /\ ch[h].bufsz = 0 /\ gh[h].log = <<1>> /\ gh[h].acc = 1
        /\ ch[h].in = <<>> /\ ch[h].out = <<>>
        /\ cr[a].pc = "ready" /\ cr[a].op = "chsend" /\ ResumeStep(a).rc = 0

SendCl(h) == [ch |-> h, op |-> CHSEND, len |-> ch[h].sz, val |-> PTR]
RecvCl(h) == [ch |-> h, op |-> CHRECV, len |-> ch[h].sz, val |-> PTR]

\* The buffered items of channel record c, head first.
Items(c) == [i \in 1..c.items |-> Slot(c, (c.first + i - 1) % c.bufsz)]

\* C7: on a channel that is done, every chsend and every choose send-clause
\* fails with EPIPE and changes nothing; while items are buffered a receive
\* (chrecv or choose recv-clause) succeeds with the head item and leaves the
\* other items in place, the items being in the order they were sent; once
\* the buffer is empty every receive fails with EPIPE, without parking,
\* whatever its deadline.
DoneDrainable ==
    \A h \in Chans, t \in Tasks :
        hs[h] = "chan" /\ ch[h].done /\ Caller(t) =>
            \A d \in Deadlines :
                LET s == ChSendStep(t, h, NextVal(h), ch[h].sz, d)
                    cs == ChooseStep(t, <<SendCl(h)>>, d)
                    r == ChRecvStep(t, h, ch[h].sz, d)
                    rs == ChooseStep(t, <<RecvCl(h)>>, d)
                    q == Items(ch[h])
                IN  /\ ~s.park /\ s.rc = -1 /\ s.errno = EPIPE
                    /\ s.ch = ch /\ s.cr = cr
                    /\ ~cs.park /\ cs.rc = 0 /\ cs.errno = EPIPE
                    /\ cs.ch = ch /\ cs.cr = cr
                    /\ \A i, j \in 1..Len(q) : i < j => q[i] < q[j]
                    /\ ~r.park /\ ~rs.park /\ r.ch = rs.ch
                    /\ IF ch[h].items > 0
                       THEN /\ r.rc = 0 /\ r.val = q[1]
                            /\ rs.rc = 0 /\ rs.errno = NoErr /\ rs.val = q[1]
                            /\ r.ch[h].done /\ Items(r.ch[h]) = Tail(q)
                       ELSE /\ r.rc = -1 /\ r.errno = EPIPE
                            /\ rs.rc = 0 /\ rs.errno = EPIPE
                            /\ r.ch = ch /\ r.cr = cr

\* A done channel with two buffered items.
WitnessDoneDrainable ==
    \E h \in Live : ch[h].done /\ ch[h].items = 2

\* C8: a task that is not parked (it was resumed by a counterpart, by chdone
\* or close, or by its timer, or it never parked) has no clause linked in
\* any waiter list of any channel.
CleanUnpark ==
    \A t \in Tasks : cr[t].pc # "wait" =>
        \A h \in Chans : t \notin Owners(ch[h].in) \cup Owners(ch[h].out)

\* A choose over two clauses was woken through its first clause by a
\* counterpart, both channels being live.
WitnessCleanUnpark ==
    \E t \in Tasks :
        /\ cr[t].pc = "ready" /\ cr[t].op = "choose" /\ cr[t].n = 2
        /\ cr[t].id = 0 /\ cr[t].err = NoErr
        /\ \A h \in Chans : hs[h] = "chan"

\* A clause is well-formed when choose accepts it, and ready when the
\* operation it names would not park.
WellFormed(cl) ==
    /\ HQuery(cl.ch) /\ cl.len = ch[cl.ch].sz /\ cl.val = PTR
    /\ cl.op \in {CHSEND, CHRECV}
Ready(cl) ==
    LET c == ch[cl.ch] IN
    IF cl.op = CHSEND THEN c.done \/ c.in # <<>> \/ c.items < c.bufsz
    ELSE c.items > 0 \/ c.out # <<>> \/ c.done
Polled(cls) == \A k \in 1..Len(cls) : WellFormed(cls[k])
LowestReady(cls) ==
    CHOOSE i \in 1..Len(cls) : Ready(cls[i]) /\ \A k \in 1..(i - 1) : ~Ready(cls[k])

\* Clause i (1-based) of cls performed alone by task t, as a chsend or a
\* chrecv that is allowed to block.
Single(t, cls, i) ==
    IF cls[i].op = CHSEND
    THEN ChSendStep(t, cls[i].ch, Payload(cls, i), cls[i].len, -1)
    ELSE ChRecvStep(t, cls[i].ch, cls[i].len, -1)

\* Result r of a choose performs clause i (1-based) as the single operation
\* with result o does: index i is returned, channels, tasks and messages are
\* as o leaves them, and neither call parks.
AsSingle(r, o, i) ==
    /\ ~r.park /\ r.rc = i - 1
    /\ ~o.park
    /\ r.ch = o.ch /\ r.cr = o.cr /\ r.gh = o.gh /\ r.val = o.val
    /\ r.errno = (IF o.rc = 0 THEN NoErr ELSE o.errno)
    /\ o.rc = -1 => o.errno = EPIPE /\ r.ch = ch /\ r.cr = cr

\* The fields of a channel record other than its waiter lists.
Store(c) == [c EXCEPT !.in = <<>>, !.out = <<>>]

\* The calls C9 is about: the running tasks and the clause arrays that are
\* well-formed with a ready clause.
Runners == {t \in Tasks : Caller(t)}
ReadyLists ==
    {cls \in GoodLists(NChans) :
        Polled(cls) /\ \E k \in 1..Len(cls) : Ready(cls[k])}

\* C9 as stated: the channels other than the one of the clause performed
\* are left unchanged, waiter lists included.
PollsInOrderOthersUntouched ==
    \A cls \in ReadyLists : \A t \in Runners :
        LET i == LowestReady(cls)
            o == Single(t, cls, i)
        IN  \A d \in Deadlines :
                LET r == ChooseStep(t, cls, d)
                IN  /\ AsSingle(r, o, i)
                    /\ \A g \in Chans \ {cls[i].ch} : r.ch[g] = ch[g]

\* C9, amended: when all clauses are well-formed and one is ready, choose
\* returns the lowest ready index, performs that clause as chsend or chrecv
\* would, and does not park, whatever its deadline; on every other channel
\* it leaves buffer, items and done unchanged, and removes from the waiter
\* lists exactly the clauses of the tasks it has woken.
PollsInOrder ==
    \A cls \in ReadyLists : \A t \in Runners :
        LET i == LowestReady(cls)
            o == Single(t, cls, i)
            woken == {u \in Tasks : cr[u].pc = "wait" /\ o.cr[u].pc = "ready"}
            Kept(q) == SelectSeq(q, LAMBDA c : c.cr \notin woken)
        IN  /\ \A d \in Deadlines : AsSingle(ChooseStep(t, cls, d), o, i)
            /\ \A g \in Chans \ {cls[i].ch} :
                /\ Store(o.ch[g]) = Store(ch[g])
                /\ o.ch[g].in = Kept(ch[g].in)
                /\ o.ch[g].out = Kept(ch[g].out)

\* Channel 1 is empty with capacity 1 and channel 2 holds an item: a choose
\* of a send on 1 and a receive on 2 returns index 0, channel 1 then holds
\* the message and channel 2 still holds its item.
WitnessPollsInOrder ==
    \E t \in Tasks :
        /\ Caller(t) /\ HQuery(1) /\ HQuery(2)
        /\ ch[1].bufsz = 1 /\ ch[1].items = 0 /\ ~ch[1].done /\ ch[1].in = <<>>
        /\ ch[2].items = 1
        /\ LET r == ChooseStep(t, <<SendCl(1), RecvCl(2)>>, -1)
           IN r.rc = 0 /\ r.ch[1].items = 1 /\ r.ch[2] = ch[2]

\* The cause of a wake-up, read off the step that fires the clause: chdone
\* sets the done flag and close retires the handle; a counterpart makes a
\* send succeed; what remains is the timer.
Woken(t) == cr[t].pc = "wait" /\ cr'[t].pc = "ready"
ByClosing ==
    \E h \in Chans : \/ hs[h] = "chan" /\ hs'[h] = "closed"
                     \/ hs[h] = "chan" /\ ~ch[h].done /\ ch'[h].done
ByCounterpart ==
    \E h \in Chans : gh'[h].nsent > gh[h].nsent

\* C10: a parked chsend or chrecv returns 0 when a counterpart woke it, -1
\* with EPIPE when chdone or close woke it, -1 with ETIMEDOUT when its timer
\* fired; a parked choose returns the index of the fired clause with errno 0
\* when a counterpart fired it, the index with EPIPE when chdone or close
\* fired it, and -1 with ETIMEDOUT when the timer fired.  The outcome a
\* woken task is to observe is not changed before it resumes.
WakeCodes ==
    [][\A t \in Tasks :
        /\ Woken(t) =>
            LET c == cr'[t]
                r == AfterWait(c)
                single == c.op \in {"chsend", "chrecv"}
            IN  IF ByClosing
                THEN /\ c.id \in 0..(c.n - 1) /\ r.errno = EPIPE
                     /\ r.rc = (IF single THEN -1 ELSE c.id)
                ELSE IF ByCounterpart
                THEN /\ c.id \in 0..(c.n - 1) /\ r.errno = NoErr
                     /\ r.rc = (IF single THEN 0 ELSE c.id)
                ELSE r.rc = -1 /\ r.errno = ETIMEDOUT
        /\ cr[t].pc = "ready" =>
            \/ cr'[t] = cr[t]
            \/ cr'[t] = Running /\ errno' = AfterWait(cr[t]).errno
      ]_vars

\* A parked choose of two clauses was woken through its second clause by
\* chdone or close.
WitnessWakeCodes ==
    \E t \in Tasks :
        /\ cr[t].pc = "ready" /\ cr[t].op = "choose" /\ cr[t].n = 2
        /\ cr[t].id = 1 /\ cr[t].err = EPIPE

\* Result r is an immediate failure with ETIMEDOUT that links no clause,
\* arms no timer and changes no channel.
TimedOutAtOnce(r) ==
    /\ ~r.park /\ r.rc = -1 /\ r.errno = ETIMEDOUT
    /\ r.ch = ch /\ r.cr = cr /\ r.gh = gh

\* The well-formed clause arrays none of whose clauses is ready.
UnreadyLists ==
    {cls \in GoodLists(NChans) :
        Polled(cls) /\ \A k \in 1..Len(cls) : ~Ready(cls[k])}

\* C11: a chsend, a chrecv or a choose called with deadline 0 whose
\* operation (every clause) is not ready fails at once with ETIMEDOUT,
\* links no clause, arms no timer and leaves every channel unchanged.
ZeroNeverParks ==
    \A t \in Runners :
        /\ \A h \in Live :
            /\ ~Ready(SendCl(h)) =>
                    TimedOutAtOnce(ChSendStep(t, h, NextVal(h), ch[h].sz, 0))
            /\ ~Ready(RecvCl(h)) =>
                    TimedOutAtOnce(ChRecvStep(t, h, ch[h].sz, 0))
        /\ \A cls \in UnreadyLists : TimedOutAtOnce(ChooseStep(t, cls, 0))

\* Channel 1 is unbuffered and idle, channel 2 is full, nobody waits, and
\* the last call failed with ETIMEDOUT.
WitnessZeroNeverParks ==
    /\ Idle(1) /\ ch[1].bufsz = 0
    /\ HQuery(2) /\ ~ch[2].done /\ ch[2].bufsz = 1 /\ ch[2].items = 1
    /\ ch[2].out = <<>>
    /\ \E t \in Runners : <<RecvCl(1), SendCl(2)>> \in UnreadyLists
    /\ errno = ETIMEDOUT

\* C12: a chsend or a chrecv whose len differs from the element size of the
\* channel fails with errno EINVAL, whatever errno held before, does not
\* park and leaves the channels unchanged.
LengthCheck ==
    \A t \in Runners, h \in Live :
        \A len \in Lens \ {ch[h].sz}, d \in Deadlines :
            LET s == ChSendStep(t, h, NextVal(h), len, d)
                r == ChRecvStep(t, h, len, d)
            IN  /\ ~s.park /\ s.rc = -1 /\ s.errno = EINVAL
                /\ s.ch = ch /\ s.cr = cr
                /\ ~r.park /\ r.rc = -1 /\ r.errno = EINVAL
                /\ r.ch = ch /\ r.cr = cr

\* The clause arrays whose last clause is the first malformed one, no
\* clause before it being ready.
MalformedLists ==
    {cls \in ClauseLists(1) \ GoodLists(1) :
        \A k \in 1..(Len(cls) - 1) : WellFormed(cls[k]) /\ ~Ready(cls[k])}

\* C13: when clause j of a choose is malformed (its handle is no channel,
\* its len differs from the element size, its payload is null with a
\* non-zero len, or its op is neither CHSEND nor CHRECV), j being the first
\* such clause and no clause before it being ready, choose returns j with
\* an error code set, does not suspend, links no clause and changes no
\* channel, for every deadline.
ClauseValidation ==
    \A t \in Runners, cls \in MalformedLists, d \in Deadlines :
        LET r == ChooseStep(t, cls, d)
        IN  /\ ~r.park /\ r.rc = Len(cls) - 1
            /\ r.errno \in {EINVAL, EBADF}
            /\ r.ch = ch /\ r.cr = cr /\ r.gh = gh

\* A choose has reported EINVAL on a live idle channel, where a clause
\* before the malformed one is not ready.
WitnessClauseValidation ==
    /\ Idle(1) /\ errno = EINVAL
    /\ \E cls \in MalformedLists : Len(cls) = 2 /\ cls[2].val = NULL

HandedToHead(r, h, v) ==
    LET a == Head(ch[h].in) IN
    /\ ~r.park
    /\ r.cr[a.cr].pc = "ready" /\ r.cr[a.cr].id = a.id
    /\ r.cr[a.cr].err = NoErr /\ r.cr[a.cr].rbuf = v
    /\ r.gh[h].log = Append(gh[h].log, v)
    /\ r.ch[h].items = 0

\* C15: on a channel of capacity 0, items is 0 in every reachable state and
\* every send that succeeded was taken by a receiver; a chsend or a choose
\* send-clause hands its payload to the head parked receiver when there is
\* one, and otherwise (the channel not being done) parks when its deadline
\* is not 0 and fails with ETIMEDOUT when it is.
Rendezvous ==
    \A h \in Live : ch[h].bufsz = 0 =>
        /\ ch[h].items = 0
        /\ gh[h].nsent = Len(gh[h].log)
        /\ \A t \in Runners, d \in Deadlines :
            LET v == NextVal(h)
                s == ChSendStep(t, h, v, ch[h].sz, d)
                c == ChooseStep(t, <<SendCl(h)>>, d)
            IN  IF ch[h].done
                THEN s.rc = -1 /\ s.errno = EPIPE /\ c.errno = EPIPE /\ s.gh = gh /\ c.gh = gh
                ELSE IF ch[h].in # <<>>
                THEN /\ s.rc = 0 /\ HandedToHead(s, h, v)
                     /\ c.rc = 0 /\ c.errno = NoErr /\ HandedToHead(c, h, v)
                ELSE IF d = 0
                THEN TimedOutAtOnce(s) /\ TimedOutAtOnce(c)
                ELSE /\ s.park /\ c.park
                     /\ s.ch[h] = [ch[h] EXCEPT !.out = Append(@, Clause(t, 0, v))]
                     /\ c.ch[h] = s.ch[h]
                     /\ s.gh[h].nsent = gh[h].nsent /\ s.gh[h].log = gh[h].log
                     /\ c.gh = s.gh

\* An unbuffered channel on which a message was delivered while another
\* receiver is still parked.
WitnessRendezvous ==
    \E h \in Live :
        ch[h].bufsz = 0 /\ ch[h].in # <<>> /\ gh[h].log # <<>> /\ Runners # {}

\* Result r of a send of v on channel h, whose recv-waiter list is not
\* empty, delivers v to the head of that list and leaves items, first, done
\* and the buffer unchanged.
HandOffEdge(r, h, v) ==
    /\ r.rc = 0 /\ HandedToHead(r, h, v)
    /\ Store(r.ch[h]) = Store(ch[h])

\* The sends C16 is about: both ways of sending on a channel with a parked
\* receiver.
HandOffs(t, h, d) ==
    {ChSendStep(t, h, NextVal(h), ch[h].sz, d), ChooseStep(t, <<SendCl(h)>>, d)}

\* C16 as stated: the hand-off shortens the recv-waiter list by exactly one
\* clause, the send-waiter list being empty before and after.
HandOffEdgeByOne ==
    \A h \in Live : ch[h].in # <<>> =>
        \A t \in Runners, d \in Deadlines : \A r \in HandOffs(t, h, d) :
            /\ HandOffEdge(r, h, NextVal(h))
            /\ Len(r.ch[h].in) = Len(ch[h].in) - 1
            /\ ch[h].out = <<>> /\ r.ch[h].out = <<>>

\* C16, amended: a send on a channel whose recv-waiter list is not empty
\* leaves items, first and done unchanged, delivers the payload to the
\* clause at the head of the recv-waiter list, and removes from the waiter
\* lists of the channel the clauses of the woken task and no others: the
\* head clause and, when the woken task is a choose with several clauses on
\* this channel, its other clauses too.
HandOffEdgeByTask ==
    \A h \in Live : ch[h].in # <<>> =>
        \A t \in Runners, d \in Deadlines : \A r \in HandOffs(t, h, d) :
            LET a == Head(ch[h].in).cr
                Others(q) == SelectSeq(q, LAMBDA c : c.cr # a)
            IN  /\ HandOffEdge(r, h, NextVal(h))
                /\ r.ch[h].in = Others(ch[h].in)
                /\ r.ch[h].out = Others(ch[h].out)
                /\ Len(r.ch[h].in) < Len(ch[h].in)
                /\ \A u \in Tasks \ {a} : r.cr[u] = cr[u]

\* A choose has two receive clauses parked on one channel and a task is
\* there to send.
WitnessHandOffEdge ==
    \E h \in Live :
        /\ Len(ch[h].in) = 2 /\ Cardinality(Owners(ch[h].in)) = 1
        /\ Runners # {}

\* The tasks that have a clause parked on channel h.
ParkedOn(h) == Owners(ch[h].in) \cup Owners(ch[h].out)

\* C17: with the timer and the resumption of ready tasks weakly fair, a
\* call parked with a finite deadline eventually returns, and so does every
\* call that was made ready; a chdone makes every task parked on the
\* channel ready, whatever its deadline, so that it eventually returns.
BoundedWaiting ==
    /\ \A t \in Tasks : (cr[t].pc = "wait" /\ cr[t].timer) ~> (cr[t].pc = "run")
    /\ \A t \in Tasks : (cr[t].pc = "ready") ~> (cr[t].pc = "run")
    /\ [][\A h \in Chans : hs[h] = "chan" /\ ~ch[h].done /\ ch'[h].done =>
            \A t \in ParkedOn(h) : cr'[t].pc = "ready" /\ cr'[t].err = EPIPE]_vars
    /\ [](\A h \in Live : ch[h].done => ParkedOn(h) = {})

\* A timer has fired for one task while another is parked with an infinite
\* deadline.
WitnessBoundedWaiting ==
    \E t \in Tasks, u \in Tasks :
        /\ cr[t].pc = "ready" /\ cr[t].err = ETIMEDOUT
        /\ cr[u].pc = "wait" /\ ~cr[u].timer

\* Result r of a receive on channel h, whose send-waiter list is not empty,
\* completes against the head of that list: the sender is made ready with
\* error 0, and its payload is what the receiver gets (no buffered item) or
\* what takes the place of the item the receiver gets.
TakenFromHead(r, h) ==
    LET a == Head(ch[h].out) IN
    /\ ~r.park
    /\ r.cr[a.cr].pc = "ready" /\ r.cr[a.cr].id = a.id /\ r.cr[a.cr].err = NoErr
    /\ r.gh[h].nsent = gh[h].nsent + 1
    /\ IF ch[h].items = 0
       THEN r.val = a.val /\ r.ch[h].items = 0
       ELSE /\ r.val = Slot(ch[h], ch[h].first)
            /\ Items(r.ch[h]) = Tail(Items(ch[h])) \o <<a.val>>

\* C18: no channel has a clause on its send-waiter list and a clause on its
\* recv-waiter list that belong to two different tasks; a task that sends
\* where another task has a receive parked, or receives where another task
\* has a send parked, does not park: its operation completes against the
\* head waiter.
NoMissedRendezvous ==
    \A h \in Live :
        /\ \A a \in Range(ch[h].out), b \in Range(ch[h].in) : a.cr = b.cr
        /\ \A t \in Runners, d \in Deadlines :
            /\ ch[h].in # <<>> =>
                \A r \in HandOffs(t, h, d) : r.rc = 0 /\ HandedToHead(r, h, NextVal(h))
            /\ ch[h].out # <<>> =>
                \A r \in {ChRecvStep(t, h, ch[h].sz, d), ChooseStep(t, <<RecvCl(h)>>, d)} :
                    r.rc = 0 /\ TakenFromHead(r, h)

\* Two tasks are parked as senders on one channel and a third task is there
\* to receive.
WitnessNoMissedRendezvous ==
    \E h \in Live :
        /\ Cardinality(Owners(ch[h].out)) = 2 /\ Runners # {}

\* Sends accepted, sends that succeeded and messages delivered on the
\* channels 1..h, by history g.
RECURSIVE TotalAcc(_, _)
TotalAcc(g, h) == IF h = 0 THEN 0 ELSE g[h].acc + TotalAcc(g, h - 1)
RECURSIVE TotalSent(_, _)
TotalSent(g, h) == IF h = 0 THEN 0 ELSE g[h].nsent + TotalSent(g, h - 1)
RECURSIVE TotalLog(_, _)
TotalLog(g, h) == IF h = 0 THEN 0 ELSE Len(g[h].log) + TotalLog(g, h - 1)

\* The messages a choose that returns with result r without parking has
\* sent and received.
Transfers(r) ==
    (TotalAcc(r.gh, NChans) - TotalAcc(gh, NChans)) + (IF r.val # 0 THEN 1 ELSE 0)

\* Task t is linked nowhere in the next state.
UnlinkedNext(t) ==
    \A h \in Chans : t \notin Owners(ch'[h].in) \cup Owners(ch'[h].out)

\* C19: a choose transfers at most one message.  Returning from its polling
\* phase it has sent or received one message, and none when it returns -1
\* or an index with an error code.  Parked, it is woken once: by a
\* counterpart that fires one clause, which completes one send of the call
\* or fills its receive buffer, and is the only wake-up and the only
\* transfer of that step; or by chdone, close or the timer, with no message
\* transferred; either way none of its clauses stays linked, so that no
\* later operation can match one.
OneTransfer ==
    /\ [](\A t \in Runners, cls \in GoodLists(NChans), d \in Deadlines :
            LET r == ChooseStep(t, cls, d)
            IN  ~r.park =>
                    IF r.rc = -1 \/ r.errno # NoErr
                    THEN r.val = 0 /\ r.gh = gh /\ r.ch = ch
                    ELSE Transfers(r) <= 1)
    /\ [][\A t \in Tasks : Woken(t) /\ cr[t].op = "choose" =>
            /\ UnlinkedNext(t)
            /\ IF cr'[t].err = NoErr
               THEN /\ \A u \in Tasks \ {t} : ~Woken(u)
                    /\ TotalSent(gh', NChans) = TotalSent(gh, NChans) + 1
                    /\ TotalLog(gh', NChans) = TotalLog(gh, NChans) + 1
                    /\ IF \E h \in Chans : \E c \in Range(ch[h].out) :
                                c.cr = t /\ c.id = cr'[t].id
                       THEN cr'[t].rbuf = 0
                       ELSE cr'[t].rbuf # 0
               ELSE /\ cr'[t].rbuf = 0
                    /\ \A h \in Chans : hs'[h] = "chan" =>
                            gh'[h].nsent = gh[h].nsent /\ gh'[h].log = gh[h].log
      ]_vars

\* A choose parked on two channels was woken through its second clause by a
\* counterpart.
WitnessOneTransfer ==
    \E t \in Tasks :
        /\ cr[t].pc = "ready" /\ cr[t].op = "choose" /\ cr[t].n = 2
        /\ cr[t].id = 1 /\ cr[t].err = NoErr
        /\ Cardinality(Live) = 2

\* C20: on a channel that is done and stays open, items never increases,
\* and a message delivered is the item at the head of the buffer, the items
\* left being the rest of the buffer in order; the chdone itself delivers
\* nothing to the receivers it wakes.  So every message received after a
\* chdone was in the buffer when chdone was called.
NoSendsAfterDone ==
    [][\A h \in Chans : hs[h] = "chan" /\ hs'[h] = "chan" =>
        /\ ch[h].done =>
            /\ ch'[h].done
            /\ ch'[h].items <= ch[h].items
            /\ gh'[h].nsent = gh[h].nsent
            /\ IF gh'[h].log # gh[h].log
               THEN /\ ch[h].items > 0
                    /\ gh'[h].log = Append(gh[h].log, Slot(ch[h], ch[h].first))
                    /\ Items(ch'[h]) = Tail(Items(ch[h]))
               ELSE Items(ch'[h]) = Items(ch[h])
        /\ ~ch[h].done /\ ch'[h].done =>
            /\ gh'[h] = gh[h] /\ Items(ch'[h]) = Items(ch[h])
            /\ \A t \in ParkedOn(h) : cr'[t].rbuf = cr[t].rbuf
      ]_vars

\* A done channel from which one item was received and which holds another.
WitnessNoSendsAfterDone ==
    \E h \in Live :
        /\ ch[h].done /\ ch[h].items = 1 /\ ch[h].first = 1
        /\ Len(gh[h].log) = 1
====
